---------------------------- MODULE Spec2Model ----------------------------
(***************************************************************************)
(* Model of src/streamlit_app.py: the Njangi reporting dashboard.          *)
(*                                                                         *)
(* One script run of the page is: check the two secrets, create the        *)
(* client, load eight tables through the 30 second cache, compute the      *)
(* metrics, draw the sidebar and the selected page.  A selection in the    *)
(* sidebar starts the next run.                                            *)
(***************************************************************************)
EXTENDS Integers, Sequences, FiniteSets, TLC

(***************************************************************************)
(* Bounds of the model.                                                    *)
(***************************************************************************)
MaxLen == 3          \* longest candidate list / column handed to a helper
MaxRows == 2         \* rows of a generated contributions / metric table
MaxMemberRows == 2   \* rows of a generated members table
MaxExtra == 2        \* rows beyond the chart's cut in the many-contributors tables
MaxTicks == 3        \* clock ticks the model lets pass
TickSeconds == 15    \* seconds per clock tick

(***************************************************************************)
(* Program constants.                                                      *)
(***************************************************************************)
CacheTtl == 30       \* @st.cache_data(ttl=30)
TopN == 10           \* .head(10)
HistoryLimit == 200  \* load_table("history", limit=200)
RecentN == 20        \* view.head(20)

(***************************************************************************)
(* Cell values of a loaded row (JSON values): null, a number, a text.      *)
(* A text is the sequence of its characters.                               *)
(***************************************************************************)
Null == [t |-> "null", n |-> 0, s |-> <<>>]
Num(i) == [t |-> "num", n |-> i, s |-> <<>>]
Str(cs) == [t |-> "str", n |-> 0, s |-> cs]

(***************************************************************************)
(* Floating point results: a finite number, +/- infinity, or NaN.          *)
(***************************************************************************)
Fin(i) == [k |-> "fin", v |-> i]
PosInf == [k |-> "inf", v |-> 1]
NegInf == [k |-> "inf", v |-> -1]
NaN == [k |-> "nan", v |-> 0]
IsFinite(x) == x.k = "fin"

\* IEEE addition, as Series.sum() adds the elements.
Add(a, b) ==
  IF a.k = "nan" \/ b.k = "nan" THEN NaN
  ELSE IF a.k = "inf" /\ b.k = "inf" THEN (IF a.v = b.v THEN a ELSE NaN)
  ELSE IF a.k = "inf" THEN a
  ELSE IF b.k = "inf" THEN b
  ELSE Fin(a.v + b.v)

RECURSIVE SumSeq(_)
SumSeq(xs) == IF xs = <<>> THEN Fin(0) ELSE Add(Head(xs), SumSeq(Tail(xs)))

\* IEEE a < b: false whenever either side is NaN.
Less(a, b) ==
  /\ a.k # "nan" /\ b.k # "nan"
  /\ \/ a.k = "fin" /\ b.k = "fin" /\ a.v < b.v
     \/ a.k = "fin" /\ b = PosInf
     \/ a = NegInf /\ b.k = "fin"
     \/ a = NegInf /\ b = PosInf

(***************************************************************************)
(* pd.to_numeric(..., errors="coerce") on one value.  A text parses when   *)
(* it is an optional sign followed by digits, or by inf / infinity; the    *)
(* text nan, the empty text and everything else give NaN.                  *)
(***************************************************************************)
Digits == <<"0", "1", "2", "3", "4", "5", "6", "7", "8", "9">>
IsDigit(c) == \E i \in 1..Len(Digits) : Digits[i] = c
DigitVal(c) == (CHOOSE i \in 1..Len(Digits) : Digits[i] = c) - 1

RECURSIVE DigitsValue(_, _)
DigitsValue(cs, acc) ==
  IF cs = <<>> THEN acc
  ELSE DigitsValue(Tail(cs), acc * 10 + DigitVal(Head(cs)))

InfWords == { <<"i", "n", "f">>, <<"i", "n", "f", "i", "n", "i", "t", "y">> }

ParseUnsigned(cs) ==
  IF cs = <<>> THEN NaN
  ELSE IF \A i \in 1..Len(cs) : IsDigit(cs[i]) THEN Fin(DigitsValue(cs, 0))
  ELSE IF cs \in InfWords THEN PosInf
  ELSE NaN

Negate(x) == IF x.k = "nan" THEN x ELSE [x EXCEPT !.v = 0 - x.v]

ParseText(cs) ==
  IF cs = <<>> THEN NaN
  ELSE IF Head(cs) = "-" THEN Negate(ParseUnsigned(Tail(cs)))
  ELSE IF Head(cs) = "+" THEN ParseUnsigned(Tail(cs))
  ELSE ParseUnsigned(cs)

to_numeric(c) ==
  IF c.t = "null" THEN NaN
  ELSE IF c.t = "num" THEN Fin(c.n)
  ELSE ParseText(c.s)

fillna0(x) == IF x.k = "nan" THEN Fin(0) ELSE x

\* to_number(s): pd.to_numeric(s, errors="coerce").fillna(0), element by element.
to_number(s) == [i \in 1..Len(s) |-> fillna0(to_numeric(s[i]))]

(***************************************************************************)
(* Tables.  A DataFrame is its set of columns and its rows, each row a     *)
(* function from the columns to cells.                                     *)
(***************************************************************************)
EmptyDF == [cols |-> {}, rows |-> <<>>]

\* safe_df(data): data is the list of row objects the remote read returned.
safe_df(data) ==
  IF data = <<>> THEN EmptyDF
  ELSE LET cols == UNION {DOMAIN data[i] : i \in 1..Len(data)}
       IN [cols |-> cols,
           rows |-> [i \in 1..Len(data) |->
                       [c \in cols |-> IF c \in DOMAIN data[i] THEN data[i][c] ELSE Null]]]

\* DataFrame.empty: some axis has length 0.
IsEmpty(df) == df.cols = {} \/ Len(df.rows) = 0

\* df[col]: the column as a sequence of cells.
Column(df, col) == [i \in 1..Len(df.rows) |-> df.rows[i][col]]

(***************************************************************************)
(* pick_col: the first option that is a column, else None.                 *)
(***************************************************************************)
None == "<None>"
Truthy(c) == c # None /\ c # ""

RECURSIVE pick_col_last(_, _)
\* A plausible slip: a later match overrides an earlier one.
pick_col_last(df, options) ==
  IF options = <<>> THEN None
  ELSE LET rest == pick_col_last(df, Tail(options))
       IN IF rest # None THEN rest
          ELSE IF Head(options) \in df.cols THEN Head(options) ELSE None

RECURSIVE pick_col(_, _)
pick_col(df, options) ==
  IF options = <<>> THEN None
  ELSE IF Head(options) \in df.cols THEN Head(options)
  ELSE pick_col(df, Tail(options))


(***************************************************************************)
(* LOAD DATA: the eight tables, in the order the script loads them.        *)
(***************************************************************************)
TableOrder == <<"members", "contributions", "foundation_payments", "loans",
                "fines", "payouts", "history", "sureties">>
TableNames == {TableOrder[i] : i \in 1..Len(TableOrder)}

\* The limit argument of each load_table call (0: no limit given).
LimitOf(t) == IF t = "history" THEN HistoryLimit ELSE 0

(***************************************************************************)
(* COMPUTE METRICS.                                                        *)
(***************************************************************************)
ContribAmountOptions == <<"amount", "amount_paid", "contribution_amount", "paid_amount", "value">>
FoundationAmountOptions == <<"amount_paid", "amount", "paid_amount", "value">>
\* A plausible slip: one candidate is missing from the list.
LoanDueOptionsNoBalance == <<"total_due", "amount_due", "due_amount", "remaining_due">>

LoanDueOptions == <<"total_due", "amount_due", "balance", "due_amount", "remaining_due">>
LoanPrincipalOptions == <<"principal", "amount", "loan_amount">>
InterestOptions == <<"interest", "interest_amount", "interest_generated">>

\* A plausible slip: the row count without the guard on an empty frame.
members_count_unguarded(df) == Len(df.rows)

\* len(members_df) if not members_df.empty else 0
members_count_of(df) == IF ~IsEmpty(df) THEN Len(df.rows) ELSE 0

\* to_number(df[col]).sum() if (not df.empty and col) else 0
column_total(df, col) ==
  IF ~IsEmpty(df) /\ Truthy(col) THEN SumSeq(to_number(Column(df, col))) ELSE Fin(0)

ComputeMetricsOf(dfs) ==
  LET contrib_amount_col == pick_col(dfs["contributions"], ContribAmountOptions)
      foundation_amount_col == pick_col(dfs["foundation_payments"], FoundationAmountOptions)
      loan_due_col == pick_col(dfs["loans"], LoanDueOptions)
      loan_principal_col == pick_col(dfs["loans"], LoanPrincipalOptions)
      interest_col == pick_col(dfs["history"], InterestOptions)
  IN [members_count |-> members_count_of(dfs["members"]),
      contrib_amount_col |-> contrib_amount_col,
      pot_total |-> column_total(dfs["contributions"], contrib_amount_col),
      foundation_amount_col |-> foundation_amount_col,
      foundation_total |-> column_total(dfs["foundation_payments"], foundation_amount_col),
      loan_due_col |-> loan_due_col,
      loan_principal_col |-> loan_principal_col,
      outstanding_loans_due |-> column_total(dfs["loans"], loan_due_col),
      interest_col |-> interest_col,
      total_interest |-> column_total(dfs["history"], interest_col)]

NoMetrics ==
  [members_count |-> 0, contrib_amount_col |-> None, pot_total |-> Fin(0),
   foundation_amount_col |-> None, foundation_total |-> Fin(0),
   loan_due_col |-> None, loan_principal_col |-> None,
   outstanding_loans_due |-> Fin(0), interest_col |-> None, total_interest |-> Fin(0)]

(***************************************************************************)
(* DASHBOARD PAGE: the top 10 contributions chart.                         *)
(***************************************************************************)
ContribNameOptions == <<"member_name", "name", "member", "full_name">>
ContribMemberIdOptions == <<"member_id", "user_id">>
MemIdOptions == <<"id", "member_id">>
MemNameOptions == <<"name", "full_name", "member_name">>
FallbackLabel == Str(<<"M", "e", "m", "b", "e", "r">>)

\* One left row of work.merge(right, on=key, how="left"): one output row per
\* right row with an equal key, or the left row with a null name when no
\* right row matches.  Both key columns are taken to hold identifiers of one
\* kind, and the contributions frame to have no column member_name_join.
MergeRow(r, lcols, right, key) ==
  LET hits == SelectSeq(right.rows, LAMBDA m : m[key] = r[key])
      joined(m) == [c \in lcols \cup right.cols |-> IF c \in lcols THEN r[c] ELSE m[c]]
      unmatched == [c \in lcols \cup right.cols |-> IF c \in lcols THEN r[c] ELSE Null]
  IN IF hits = <<>> THEN <<unmatched>>
     ELSE [j \in 1..Len(hits) |-> joined(hits[j])]

RECURSIVE MergeRows(_, _, _, _)
MergeRows(lrows, lcols, right, key) ==
  IF lrows = <<>> THEN <<>>
  ELSE MergeRow(Head(lrows), lcols, right, key) \o MergeRows(Tail(lrows), lcols, right, key)

merge_left(left, right, key) ==
  [cols |-> left.cols \cup right.cols,
   rows |-> MergeRows(left.rows, left.cols, right, key)]

\* members_df[[mem_id_col, mem_name_col]].rename(columns={...})
members_for_join(members_df, mem_id_col, mem_name_col, member_id_col) ==
  [cols |-> {member_id_col, "member_name_join"},
   rows |-> [i \in 1..Len(members_df.rows) |->
              [c \in {member_id_col, "member_name_join"} |->
                 IF c = member_id_col THEN members_df.rows[i][mem_id_col]
                 ELSE members_df.rows[i][mem_name_col]]]]

\* groupby(name_col, dropna=False)[amount_col].sum(): one entry per label.
group_sums(work, name_col, amount_col) ==
  LET labels == {work.rows[i][name_col] : i \in 1..Len(work.rows)}
      rowsOf(l) == SelectSeq(work.rows, LAMBDA r : r[name_col] = l)
  IN {[Member |-> l,
       Amount |-> SumSeq([i \in 1..Len(rowsOf(l)) |-> rowsOf(l)[i][amount_col]])] : l \in labels}

\* sort_values(ascending=False) puts NaN last; the order among equal sums is
\* the library's choice.
SortsBefore(a, b) == b.k = "nan" \/ (a.k # "nan" /\ ~Less(a, b))

RECURSIVE sort_desc(_)
sort_desc(groups) ==
  IF groups = {} THEN <<>>
  ELSE LET g == CHOOSE x \in groups : \A y \in groups : SortsBefore(x.Amount, y.Amount)
       IN <<g>> \o sort_desc(groups \ {g})

\* A plausible slip: the cut is left out.
head_all(s, n) == s

\* .head(n)
head(s, n) == IF Len(s) <= n THEN s ELSE SubSeq(s, 1, n)

\* The else branch of the chart section: the frame handed to the bar chart.
top_contributions(contrib_df, members_df, contrib_amount_col) ==
  LET name_col == pick_col(contrib_df, ContribNameOptions)
      member_id_col == pick_col(contrib_df, ContribMemberIdOptions)
      coerced == to_number(Column(contrib_df, contrib_amount_col))
      work == [cols |-> contrib_df.cols,
               rows |-> [i \in 1..Len(contrib_df.rows) |->
                          [contrib_df.rows[i] EXCEPT ![contrib_amount_col] = coerced[i]]]]
      try_join == ~Truthy(name_col) /\ Truthy(member_id_col) /\ ~IsEmpty(members_df)
      mem_id_col == pick_col(members_df, MemIdOptions)
      mem_name_col == pick_col(members_df, MemNameOptions)
      joins == try_join /\ Truthy(mem_id_col) /\ Truthy(mem_name_col)
      work2 == IF joins
               THEN merge_left(work,
                               members_for_join(members_df, mem_id_col, mem_name_col, member_id_col),
                               member_id_col)
               ELSE work
      name_col2 == IF joins THEN "member_name_join" ELSE name_col
      work3 == IF ~Truthy(name_col2)
               THEN [cols |-> work2.cols \cup {"member_name_fallback"},
                     rows |-> [i \in 1..Len(work2.rows) |->
                                [c \in work2.cols \cup {"member_name_fallback"} |->
                                   IF c = "member_name_fallback" THEN FallbackLabel
                                   ELSE work2.rows[i][c]]]]
               ELSE work2
      name_col3 == IF ~Truthy(name_col2) THEN "member_name_fallback" ELSE name_col2
  IN head(sort_desc(group_sums(work3, name_col3, contrib_amount_col)), TopN)


(***************************************************************************)
(* SIDEBAR NAV and the page bodies.                                        *)
(***************************************************************************)
Pages == <<"Dashboard", "Members", "Contributions", "Foundation Payments", "Loans",
           "Fines", "Payouts", "History", "Sureties">>
PageSet == {Pages[i] : i \in 1..Len(Pages)}

\* money(x): the number behind a "$" (float(x) never fails on a metric).
money(x) == <<"$", x>>

NoTable == [title |-> "", placeholder |-> FALSE, shown |-> FALSE, df |-> EmptyDF]

\* table_page(title, df)
table_page(title, df) ==
  IF IsEmpty(df)
  THEN [title |-> title, placeholder |-> TRUE, shown |-> FALSE, df |-> EmptyDF]
  ELSE [title |-> title, placeholder |-> FALSE, shown |-> TRUE, df |-> df]

\* A plausible slip: one branch of the chain is handed its neighbour's frame.
table_pages_swapped(page, dfs) ==
  IF page = "Members" THEN table_page("Members", dfs["members"])
  ELSE IF page = "Contributions" THEN table_page("Contributions", dfs["contributions"])
  ELSE IF page = "Foundation Payments" THEN table_page("Foundation Payments", dfs["foundation_payments"])
  ELSE IF page = "Loans" THEN table_page("Loans", dfs["fines"])
  ELSE IF page = "Fines" THEN table_page("Fines", dfs["fines"])
  ELSE IF page = "Payouts" THEN table_page("Payouts", dfs["payouts"])
  ELSE IF page = "History" THEN table_page("History", dfs["history"])
  ELSE IF page = "Sureties" THEN table_page("Sureties", dfs["sureties"])
  ELSE NoTable

\* The if / elif chain of the table pages.
table_pages(page, dfs) ==
  IF page = "Members" THEN table_page("Members", dfs["members"])
  ELSE IF page = "Contributions" THEN table_page("Contributions", dfs["contributions"])
  ELSE IF page = "Foundation Payments" THEN table_page("Foundation Payments", dfs["foundation_payments"])
  ELSE IF page = "Loans" THEN table_page("Loans", dfs["loans"])
  ELSE IF page = "Fines" THEN table_page("Fines", dfs["fines"])
  ELSE IF page = "Payouts" THEN table_page("Payouts", dfs["payouts"])
  ELSE IF page = "History" THEN table_page("History", dfs["history"])
  ELSE IF page = "Sureties" THEN table_page("Sureties", dfs["sureties"])
  ELSE NoTable

HistoryTimeOptions == <<"created_at", "time", "date", "timestamp">>
HistoryTypeOptions == <<"type", "action", "event_type", "category">>
HistoryMemberOptions == <<"member_name", "name", "member", "full_name">>
HistoryAmountOptions == <<"amount", "value", "amount_paid">>
HistoryPctOptions == <<"interest_pct", "interest_rate", "interest_percent">>
HistoryDueOptions == <<"total_due", "amount_due", "due_amount">>

NoRecent == [shown |-> FALSE, cols |-> {}, n |-> 0]

\* Recent Activity: the columns of the view and how many rows of it are shown
\* (the order of the rows is not modelled).
recent_activity(history_df) ==
  LET picked == {pick_col(history_df, HistoryTimeOptions), pick_col(history_df, HistoryTypeOptions),
                 pick_col(history_df, HistoryMemberOptions), pick_col(history_df, HistoryAmountOptions),
                 pick_col(history_df, HistoryPctOptions), pick_col(history_df, HistoryDueOptions)}
      show_cols == {c \in picked : Truthy(c)}
  IN [shown |-> TRUE,
      cols |-> IF show_cols # {} THEN show_cols ELSE history_df.cols,
      n |-> IF Len(history_df.rows) <= RecentN THEN Len(history_df.rows) ELSE RecentN]

NoOut ==
  [error |-> FALSE, sidebar |-> <<>>, bodies |-> {}, kpi |-> <<>>, info |-> {},
   chart_shown |-> FALSE, chart |-> <<>>, pie |-> <<>>, recent |-> NoRecent,
   table |-> NoTable, footer |-> FALSE]

\* st.error(...) of the secrets check; st.stop() ends the run there.
StoppedOut == [NoOut EXCEPT !.error = TRUE]

\* Everything the run draws from the sidebar to the closing caption.
render(page, dfs, m) ==
  LET dash == page = "Dashboard"
      no_chart == IsEmpty(dfs["contributions"]) \/ ~Truthy(m.contrib_amount_col)
      no_history == IsEmpty(dfs["history"])
      tp == table_pages(page, dfs)
  IN [error |-> FALSE,
      sidebar |-> money(m.total_interest),
      bodies |-> (IF dash THEN {"Dashboard"} ELSE {})
                   \cup (IF tp.title # "" THEN {tp.title} ELSE {}),
      kpi |-> IF dash
              THEN <<money(m.pot_total), money(m.foundation_total),
                     money(m.outstanding_loans_due), m.members_count>>
              ELSE <<>>,
      info |-> (IF dash /\ no_chart THEN {"No contributions found"} ELSE {})
                 \cup (IF dash /\ no_history THEN {"No history/activity found"} ELSE {})
                 \cup (IF tp.placeholder THEN {"No data found"} ELSE {}),
      chart_shown |-> dash /\ ~no_chart,
      chart |-> IF dash /\ ~no_chart
                THEN top_contributions(dfs["contributions"], dfs["members"], m.contrib_amount_col)
                ELSE <<>>,
      pie |-> IF dash THEN <<m.pot_total, m.foundation_total, m.outstanding_loans_due>> ELSE <<>>,
      recent |-> IF dash /\ ~no_history THEN recent_activity(dfs["history"]) ELSE NoRecent,
      table |-> tp,
      footer |-> TRUE]

(***************************************************************************)
(* State.                                                                  *)
(***************************************************************************)
VARIABLES
  secrets,      \* st.secrets: SUPABASE_URL and SUPABASE_ANON_KEY (None when missing)
  remote,       \* the remote store: the rows of each table
  now,          \* the clock, in seconds
  cache,        \* st.cache_data's entry for each load_table call
  readLog,      \* history: the times of the last two remote reads of each table
  lastResult,   \* history: what the last remote read of each table made load_table return
  pc,           \* where the script run stands
  idx,          \* the load_table call the run is at
  supabase,     \* the client of this run (None before create_client)
  page,         \* the sidebar's selection
  selected,     \* history: whether the sidebar has been used
  loaded,       \* the frames of this run
  warnings,     \* the tables this run warns about
  failedNow,    \* history: the tables whose remote read failed in this run
  metrics,      \* the metrics of this run
  out,          \* what this run has drawn
  arg,          \* helper specifications: the arguments of the call
  res,          \* helper specifications: its result
  called        \* helper specifications: whether the call was made

vars == <<secrets, remote, now, cache, readLog, lastResult, pc, idx, supabase, page, selected,
          loaded, warnings, failedNow, metrics, out, arg, res, called>>
appVars == <<secrets, remote, now, cache, readLog, lastResult, pc, idx, supabase, page, selected,
             loaded, warnings, failedNow, metrics, out>>

NoEntry == [valid |-> FALSE, df |-> EmptyDF, warned |-> FALSE, at |-> 0]
NoFrames == [t \in TableNames |-> EmptyDF]

\* A plausible slip: only a missing secret is refused, an empty one passes.
FalsyMissingOnly(x) == x = None

\* "not X" of the secrets check.
Falsy(x) == x = None \/ x = ""

\* q.limit(limit) when a limit is given.
remote_select(rows, limit) ==
  IF limit > 0 /\ Len(rows) > limit THEN SubSeq(rows, 1, limit) ELSE rows

\* A plausible slip: the stored result is never used.
cache_hit_never(entry, t) == FALSE

\* @st.cache_data(ttl=30): the stored result of a call serves for 30 seconds.
cache_hit(entry, t) == entry.valid /\ t - entry.at < CacheTtl

\* A plausible slip: no try / except, the error of the read leaves load_table.
load_table_body_uncaught(t, limit, ok) ==
  IF ok THEN [df |-> safe_df(remote_select(remote[t], limit)), warned |-> FALSE, raised |-> FALSE]
  ELSE [df |-> EmptyDF, warned |-> FALSE, raised |-> TRUE]

\* The body of load_table: ok is whether the remote read succeeded.  The
\* except branch turns the error of a read into a warning and the empty
\* frame, so nothing is raised to the script.
load_table_body(t, limit, ok) ==
  IF ok THEN [df |-> safe_df(remote_select(remote[t], limit)), warned |-> FALSE, raised |-> FALSE]
  ELSE [df |-> EmptyDF, warned |-> TRUE, raised |-> FALSE]


(***************************************************************************)
(* The remote store of the page specification: the tables of the           *)
(* documented scenario.                                                    *)
(***************************************************************************)
Alice == Str(<<"A", "l", "i", "c", "e">>)
Bob == Str(<<"B", "o", "b">>)
Text100 == Str(<<"1", "0", "0">>)
TextAbc == Str(<<"a", "b", "c">>)
TextInf == Str(<<"i", "n", "f">>)
TextNegInf == Str(<<"-", "i", "n", "f">>)

ScenarioRemote ==
  [t \in TableNames |->
     CASE t = "members" -> << [id |-> Num(1), name |-> Alice] >>
       [] t = "contributions" -> << [member_id |-> Num(1), amount |-> Text100],
                                    [member_id |-> Num(1), amount |-> TextAbc] >>
       [] t = "foundation_payments" -> << [amount_paid |-> Num(50)] >>
       [] t = "loans" -> << [balance |-> Str(<<"2", "5">>), principal |-> Num(100)] >>
       [] t = "fines" -> << [amount |-> Num(5)] >>
       [] t = "payouts" -> << [amount |-> Num(10)] >>
       [] t = "history" -> << [created_at |-> TextAbc, interest |-> Num(3)] >>
       [] OTHER -> << [member_id |-> Num(1)] >>]

\* The same store with no member and no fine recorded.
SparseRemote ==
  [t \in TableNames |-> IF t \in {"members", "fines"} THEN <<>> ELSE ScenarioRemote[t]]

SecretValues == {None, "", "set"}

\* The helper specifications' variables, at rest in the page specifications.
FnIdle == arg = <<>> /\ res = <<>> /\ called = FALSE

\* The first run of a session: nothing cached, the radio at index 0.
Init ==
  /\ secrets \in [url : SecretValues, key : SecretValues]
  /\ remote \in {ScenarioRemote, SparseRemote}
  /\ now = 0
  /\ cache = [t \in TableNames |-> NoEntry]
  /\ readLog = [t \in TableNames |-> <<>>]
  /\ lastResult = NoFrames
  /\ pc = "start"
  /\ idx = 1
  /\ supabase = None
  /\ page = Pages[1]
  /\ selected = FALSE
  /\ loaded = NoFrames
  /\ warnings = {}
  /\ failedNow = {}
  /\ metrics = NoMetrics
  /\ out = NoOut
  /\ FnIdle

(***************************************************************************)
(* SUPABASE SECRETS: the check, then create_client.                        *)
(***************************************************************************)
CheckSecrets ==
  /\ pc = "start"
  /\ IF Falsy(secrets.url) \/ Falsy(secrets.key)
     THEN /\ out' = StoppedOut
          /\ pc' = "stopped"
          /\ supabase' = supabase
     ELSE /\ supabase' = "client"
          /\ pc' = "load"
          /\ out' = out
  /\ UNCHANGED <<secrets, remote, now, cache, readLog, lastResult, idx, page, selected,
                 loaded, warnings, failedNow, metrics, arg, res, called>>

(***************************************************************************)
(* One load_table call of LOAD DATA, through the cache.                    *)
(***************************************************************************)
Keep2(s) == IF Len(s) <= 2 THEN s ELSE SubSeq(s, Len(s) - 1, Len(s))

LoadTable ==
  /\ pc = "load"
  /\ LET t == TableOrder[idx]
         advance == IF idx < Len(TableOrder)
                    THEN idx' = idx + 1 /\ pc' = pc
                    ELSE idx' = idx /\ pc' = "metrics"
     IN IF cache_hit(cache[t], now)
        THEN /\ loaded' = [loaded EXCEPT ![t] = cache[t].df]
             /\ warnings' = IF cache[t].warned THEN warnings \cup {t} ELSE warnings
             /\ advance
             /\ UNCHANGED <<cache, readLog, lastResult, failedNow>>
        ELSE \E ok \in BOOLEAN :
               LET r == load_table_body(t, LimitOf(t), ok)
               IN /\ readLog' = [readLog EXCEPT ![t] = Keep2(Append(@, now))]
                  /\ failedNow' = IF ok THEN failedNow ELSE failedNow \cup {t}
                  /\ IF r.raised
                     THEN \* an uncaught error ends the script run
                          /\ pc' = "crashed"
                          /\ UNCHANGED <<idx, loaded, warnings, cache, lastResult>>
                     ELSE /\ loaded' = [loaded EXCEPT ![t] = r.df]
                          /\ warnings' = IF r.warned THEN warnings \cup {t} ELSE warnings
                          /\ cache' = [cache EXCEPT ![t] =
                                         [valid |-> TRUE, df |-> r.df, warned |-> r.warned, at |-> now]]
                          /\ lastResult' = [lastResult EXCEPT ![t] = r.df]
                          /\ advance
  /\ UNCHANGED <<secrets, remote, now, supabase, page, selected, metrics, out,
                 arg, res, called>>

ComputeMetrics ==
  /\ pc = "metrics"
  /\ metrics' = ComputeMetricsOf(loaded)
  /\ pc' = "render"
  /\ UNCHANGED <<secrets, remote, now, cache, readLog, lastResult, idx, supabase, page, selected,
                 loaded, warnings, failedNow, out, arg, res, called>>

Render ==
  /\ pc = "render"
  /\ out' = render(page, loaded, metrics)
  /\ pc' = "done"
  /\ UNCHANGED <<secrets, remote, now, cache, readLog, lastResult, idx, supabase, page, selected,
                 loaded, warnings, failedNow, metrics, arg, res, called>>

\* The radio is set to p: the script runs again from the top.
Select(p) ==
  /\ pc = "done"
  /\ page' = p
  /\ selected' = TRUE
  /\ pc' = "start"
  /\ idx' = 1
  /\ supabase' = None
  /\ loaded' = NoFrames
  /\ warnings' = {}
  /\ failedNow' = {}
  /\ metrics' = NoMetrics
  /\ out' = NoOut
  /\ UNCHANGED <<secrets, remote, now, cache, readLog, lastResult, arg, res, called>>

\* Time passes while the page is on display (a run is short against the
\* clock's tick, so the eight loads of one run see one time).
Tick ==
  /\ pc = "done"
  /\ now + TickSeconds <= MaxTicks * TickSeconds
  /\ now' = now + TickSeconds
  /\ UNCHANGED <<secrets, remote, cache, readLog, lastResult, pc, idx, supabase, page, selected,
                 loaded, warnings, failedNow, metrics, out, arg, res, called>>

Next ==
  \/ CheckSecrets
  \/ LoadTable
  \/ ComputeMetrics
  \/ Render
  \/ \E p \in PageSet : Select(p)
  \/ Tick

Spec == Init /\ [][Next]_vars


(***************************************************************************)
(* The data specification: the run from COMPUTE METRICS on, over generated *)
(* remote tables.  Every table not generated has no rows.                  *)
(***************************************************************************)
SeqsUpTo(S, n) == UNION {[1..k -> S] : k \in 0..n}

Ids == {Num(1), Num(2)}
Names == {Alice, Bob}
Amounts == {Text100, TextAbc, Num(7), TextInf}
MetricValues == {Text100, TextAbc, Num(7)}

\* Rows over the columns C with values from V, with or without a column
\* "note" that no candidate list names.
RowsOver(C, V, withNote) ==
  IF withNote
  THEN {[c \in C \cup {"note"} |-> IF c = "note" THEN TextAbc ELSE f[c]] : f \in [C -> V]}
  ELSE [C -> V]

MetricColumns(t) ==
  CASE t = "members" -> {"id"}
    [] t = "contributions" -> {"amount", "value"}
    [] t = "foundation_payments" -> {"amount_paid", "amount"}
    [] t = "loans" -> {"total_due", "amount_due", "balance"}
    [] OTHER -> {"interest", "interest_generated"}

MetricTables == {"members", "contributions", "foundation_payments", "loans", "history"}

MetricData(t) ==
  UNION {SeqsUpTo(RowsOver(C, MetricValues, wn), MaxRows) :
           C \in SUBSET MetricColumns(t), wn \in BOOLEAN}

\* Contributions: joined by identifier, named directly, anonymous, or
\* without an amount column.
ContribData ==
  SeqsUpTo([member_id : Ids, amount : Amounts], MaxRows)
    \cup SeqsUpTo([member_name : Names, amount : Amounts], MaxRows)
    \cup SeqsUpTo([amount : Amounts], MaxRows)
    \cup SeqsUpTo([member_id : Ids, note : {TextAbc}], MaxRows)
    \cup SeqsUpTo([user_id : Ids, paid_amount : Amounts], 1)
    \cup SeqsUpTo([member_name : {Alice}, amount : {TextInf, TextNegInf, Text100}], MaxRows)

MemberData ==
  SeqsUpTo([id : Ids, name : Names], MaxMemberRows)
    \cup SeqsUpTo([id : Ids], MaxMemberRows)
    \cup SeqsUpTo([member_id : Ids, full_name : Names], 1)

\* Many contributors: more labels than the chart keeps.
NameOf(i) == Str(<<"m", Digits[(i \div 10) + 1], Digits[(i % 10) + 1]>>)
ManyNamed(n, k) == [i \in 1..n |-> [member_name |-> NameOf(i), amount |-> Num((i * k) % 7)]]
ManyById(n, k) == [i \in 1..n |-> [member_id |-> Num(i), amount |-> Num((i * k) % 7)]]
ManyMembers(n) == [i \in 1..n |-> [id |-> Num(i), name |-> NameOf(i)]]

RemoteWith(contributions, members) ==
  [t \in TableNames |->
     IF t = "contributions" THEN contributions
     ELSE IF t = "members" THEN members
     ELSE <<>>]

RemoteOnly(name, rows) == [t \in TableNames |-> IF t = name THEN rows ELSE <<>>]

\* The state after LOAD DATA when every read succeeded at time 0.
LoadedFrom(r) ==
  /\ remote = r
  /\ loaded = [t \in TableNames |-> safe_df(remote_select(r[t], LimitOf(t)))]
  /\ lastResult = [t \in TableNames |-> safe_df(remote_select(r[t], LimitOf(t)))]
  /\ cache = [t \in TableNames |->
                [valid |-> TRUE, df |-> safe_df(remote_select(r[t], LimitOf(t))),
                 warned |-> FALSE, at |-> 0]]

InitData ==
  /\ secrets = [url |-> "set", key |-> "set"]
  /\ \/ \E t \in MetricTables : \E d \in MetricData(t) : LoadedFrom(RemoteOnly(t, d))
     \/ \E c \in ContribData : \E m \in MemberData : LoadedFrom(RemoteWith(c, m))
     \/ \E e \in 1..MaxExtra : \E k \in 1..3 :
          \/ LoadedFrom(RemoteWith(ManyNamed(TopN + e, k), <<>>))
          \/ LoadedFrom(RemoteWith(ManyById(TopN + e, k), ManyMembers(TopN + e)))
  /\ now = 0
  /\ readLog = [t \in TableNames |-> <<0>>]
  /\ pc = "metrics"
  /\ idx = Len(TableOrder)
  /\ supabase = "client"
  /\ page = Pages[1]
  /\ selected = FALSE
  /\ warnings = {}
  /\ failedNow = {}
  /\ metrics = NoMetrics
  /\ out = NoOut
  /\ FnIdle

NextData ==
  \/ ComputeMetrics
  \/ Render

SpecData == InitData /\ [][NextData]_vars

(***************************************************************************)
(* The helper specifications: one call of pick_col, one call of to_number. *)
(***************************************************************************)
AppIdle ==
  /\ secrets = [url |-> "set", key |-> "set"]
  /\ remote = [t \in TableNames |-> <<>>]
  /\ now = 0
  /\ cache = [t \in TableNames |-> NoEntry]
  /\ readLog = [t \in TableNames |-> <<>>]
  /\ lastResult = NoFrames
  /\ pc = "helper"
  /\ idx = 1
  /\ supabase = None
  /\ page = Pages[1]
  /\ selected = FALSE
  /\ loaded = NoFrames
  /\ warnings = {}
  /\ failedNow = {}
  /\ metrics = NoMetrics
  /\ out = NoOut

\* Column names: candidates of the loans metric and two that no list names.
PickNames == {"total_due", "balance", "due_amount", "note"}

\* Every frame reaches pick_col from load_table: safe_df of a read's rows.
PickData ==
  UNION {SeqsUpTo([C -> {Text100}], 1) : C \in SUBSET PickNames}

InitPick ==
  /\ AppIdle
  /\ \E d \in PickData : \E o \in SeqsUpTo(PickNames, MaxLen) :
       arg = [data |-> d, df |-> safe_df(d), options |-> o]
  /\ res = None
  /\ called = FALSE

CallPickCol ==
  /\ ~called
  /\ res' = pick_col(arg.df, arg.options)
  /\ called' = TRUE
  /\ UNCHANGED <<arg, appVars>>

SpecPick == InitPick /\ [][CallPickCol]_vars

CoerceCells == {Null, Num(7), Num(-2), Text100, TextAbc, Str(<<>>), TextInf, TextNegInf}

InitCoerce ==
  /\ AppIdle
  /\ \E c \in SeqsUpTo(CoerceCells, MaxLen) : arg = [s |-> c]
  /\ res = <<>>
  /\ called = FALSE

CallToNumber ==
  /\ ~called
  /\ res' = to_number(arg.s)
  /\ called' = TRUE
  /\ UNCHANGED <<arg, appVars>>

SpecCoerce == InitCoerce /\ [][CallToNumber]_vars


(***************************************************************************)
(* Claims about the helpers.                                               *)
(***************************************************************************)
\* The columns of the rows a read returned (every row has the same keys).
DataCols(d) == IF d = <<>> THEN {} ELSE DOMAIN d[1]

\* C1: pick_col returns the first candidate, in list order, that is a column
\* of the table; it returns None exactly when no candidate is a column, which
\* is the case of every empty table; what it returns is a candidate and a
\* column; the table is left as it was.
C1_PickFirstMatch ==
  called =>
    LET cols == DataCols(arg.data)
        o == arg.options
        hits == {i \in 1..Len(o) : o[i] \in cols}
    IN /\ (res = None) <=> (hits = {})
       /\ hits # {} => \E i \in hits : res = o[i] /\ \A j \in hits : i <= j
       /\ res # None => (res \in cols /\ \E i \in 1..Len(o) : o[i] = res)
       /\ (arg.data = <<>> \/ cols = {}) => res = None
       /\ arg.df = safe_df(arg.data)

\* C1 witness: the first candidate is no column and two later ones are; the
\* earlier of the two is returned.
C1_Witness ==
  /\ called
  /\ Len(arg.options) = 3
  /\ arg.options[1] \notin arg.df.cols
  /\ arg.options[2] \in arg.df.cols
  /\ arg.options[3] \in arg.df.cols
  /\ arg.options[2] # arg.options[3]
  /\ res = arg.options[2]

\* Whether pd.to_numeric can read the cell as a number at all.
Unparseable(c) == to_numeric(c) = NaN

\* C3: the result of to_number has the length of its input, every null or
\* unparseable value becomes 0, and every element is a finite number.
C3_CoercionTotalFinite ==
  called =>
    /\ Len(res) = Len(arg.s)
    /\ \A i \in 1..Len(arg.s) :
         /\ IsFinite(res[i])
         /\ Unparseable(arg.s[i]) => res[i] = Fin(0)

(***************************************************************************)
(* Claims about the metrics.                                               *)
(***************************************************************************)
SetOf(seq) == {seq[i] : i \in 1..Len(seq)}
HasAny(df, options) == df.cols \cap SetOf(options) # {}
Computed == pc \in {"render", "done"}

\* C2: a metric whose table is empty or has none of its candidate columns is
\* 0; the member count is 0 for an empty members table and its row count
\* otherwise.
C2_MetricsZeroWhenAbsent ==
  Computed =>
    /\ (IsEmpty(loaded["contributions"]) \/ ~HasAny(loaded["contributions"], ContribAmountOptions))
         => metrics.pot_total = Fin(0)
    /\ (IsEmpty(loaded["foundation_payments"])
          \/ ~HasAny(loaded["foundation_payments"], FoundationAmountOptions))
         => metrics.foundation_total = Fin(0)
    /\ (IsEmpty(loaded["loans"]) \/ ~HasAny(loaded["loans"], LoanDueOptions))
         => metrics.outstanding_loans_due = Fin(0)
    /\ (IsEmpty(loaded["history"]) \/ ~HasAny(loaded["history"], InterestOptions))
         => metrics.total_interest = Fin(0)
    /\ metrics.members_count =
         (IF loaded["members"].cols = {} \/ loaded["members"].rows = <<>>
          THEN 0 ELSE Len(loaded["members"].rows))

\* C2 witness: a loans table with rows but no candidate column, and a members
\* table with rows, both with their metrics computed.
C2_Witness ==
  /\ pc = "done"
  /\ Len(loaded["loans"].rows) = MaxRows
  /\ loaded["loans"].cols = {"note"}
  /\ metrics.outstanding_loans_due = Fin(0)

BalanceSum == SumSeq(to_number(Column(loaded["loans"], "balance")))

\* C8 as stated: a non-empty loans table with a column balance and no column
\* total_due has the sum of its coerced balance values as outstanding loans due.
C8_BalanceWithoutTotalDue ==
  (Computed /\ ~IsEmpty(loaded["loans"]) /\ "balance" \in loaded["loans"].cols
     /\ "total_due" \notin loaded["loans"].cols)
    => metrics.outstanding_loans_due = BalanceSum

\* C8 amended: a non-empty loans table with a column balance and neither
\* total_due nor amount_due has the sum of its coerced balance values as
\* outstanding loans due.
C8_BalanceWhenFirstMatch ==
  (Computed /\ ~IsEmpty(loaded["loans"]) /\ "balance" \in loaded["loans"].cols
     /\ "total_due" \notin loaded["loans"].cols
     /\ "amount_due" \notin loaded["loans"].cols)
    => metrics.outstanding_loans_due = BalanceSum

\* C8 witness: balances "100" and 7, no total_due, no amount_due: 107.
C8_Witness ==
  /\ pc = "done"
  /\ loaded["loans"].cols = {"balance", "note"}
  /\ Len(loaded["loans"].rows) = 2
  /\ loaded["loans"].rows[1]["balance"] = Text100
  /\ loaded["loans"].rows[2]["balance"] = Num(7)
  /\ metrics.outstanding_loans_due = Fin(107)


(***************************************************************************)
(* Claims about the Dashboard's contributions chart.                       *)
(***************************************************************************)
Contrib == loaded["contributions"]
Members == loaded["members"]
OnDashboard == pc = "done" /\ page = "Dashboard"

\* The coerced amount of contribution row i.
AmountOfRow(i) == fillna0(to_numeric(Contrib.rows[i][pick_col(Contrib, ContribAmountOptions)]))
AllAmounts == [i \in 1..Len(Contrib.rows) |-> AmountOfRow(i)]

\* The sum of the coerced amounts of the contribution rows whose column col
\* holds the value v.
SumWhere(col, v) ==
  LET at == SelectSeq([i \in 1..Len(Contrib.rows) |-> i], LAMBDA i : Contrib.rows[i][col] = v)
  IN SumSeq([k \in 1..Len(at) |-> AmountOfRow(at[k])])

ChartAmounts == [k \in 1..Len(out.chart) |-> out.chart[k].Amount]

JoinAvailable ==
  /\ HasAny(Contrib, ContribMemberIdOptions)
  /\ ~IsEmpty(Members)
  /\ HasAny(Members, MemIdOptions)
  /\ HasAny(Members, MemNameOptions)

\* The case of C7: amounts resolve, no direct name column, an identifier
\* column, and a members table with an identifier and a name column.
JoinCase ==
  /\ OnDashboard
  /\ ~IsEmpty(Contrib)
  /\ HasAny(Contrib, ContribAmountOptions)
  /\ ~HasAny(Contrib, ContribNameOptions)
  /\ JoinAvailable

\* C7: in the join case the pot total is the sum of the coerced amounts of
\* all contribution rows, every contribution row counts under exactly one
\* chart label (so a chart that shows every label adds up to the pot total),
\* and the amount shown for a member's name is the sum of the coerced amounts
\* of the rows that carry that member's identifier.
C7_JoinByIdentifier ==
  JoinCase =>
    LET mid == pick_col(Contrib, ContribMemberIdOptions)
        mem_id == pick_col(Members, MemIdOptions)
        mem_name == pick_col(Members, MemNameOptions)
    IN /\ metrics.pot_total = SumSeq(AllAmounts)
       /\ Len(out.chart) < TopN => SumSeq(ChartAmounts) = metrics.pot_total
       /\ \A k \in 1..Len(out.chart) : \A j \in 1..Len(Members.rows) :
            Members.rows[j][mem_name] = out.chart[k].Member
              => out.chart[k].Amount = SumWhere(mid, Members.rows[j][mem_id])

Last(seq) == seq[Len(seq)]
LoadStep == pc = "load" /\ (idx' # idx \/ pc' = "metrics")
InWindow(t) == readLog[t] # <<>> /\ now - Last(readLog[t]) < CacheTtl
FreshFrame(t) == safe_df(remote_select(remote[t], LimitOf(t)))

ReadsSpaced ==
  \A t \in TableNames : Len(readLog[t]) = 2 => readLog[t][2] - readLog[t][1] >= CacheTtl

LoadUsesWindow ==
  LoadStep =>
    LET t == TableOrder[idx]
    IN /\ \A u \in TableNames \ {t} : readLog'[u] = readLog[u]
       /\ IF InWindow(t)
          THEN readLog'[t] = readLog[t] /\ loaded'[t] = lastResult[t]
          ELSE readLog'[t] = Keep2(Append(readLog[t], now))

\* C4: two remote reads of one table are at least 30 seconds apart; a load
\* less than 30 seconds after the table's last remote read makes no remote
\* read and returns what that read made load_table return, the empty table of
\* a failed read included; a load later than that makes a new remote read.
C4_CachePerWindow == []ReadsSpaced /\ [][LoadUsesWindow]_vars

\* C4 witness: the read of members at time 0 expired, the second read failed,
\* and a later run inside the second window got the cached empty table and
\* its warning without any read.
C4_Witness ==
  /\ pc = "done"
  /\ Len(readLog["members"]) = 2
  /\ now > readLog["members"][2]
  /\ InWindow("members")
  /\ failedNow = {}
  /\ "members" \in warnings
  /\ loaded["members"] = EmptyDF
  /\ remote["members"] # <<>>

\* C5: once the client exists, a failed read gives the empty table and a
\* warning for that table, only failed tables are warned about, the other
\* tables hold what the store returned, the metrics of failed tables are 0,
\* no failure ends the run or leaves it without its next load, and the
\* finished run has drawn the selected page down to the closing caption.
C5_FailuresNeverAbort ==
  supabase = "client" =>
    /\ \A t \in failedNow : loaded[t] = EmptyDF /\ t \in warnings
    /\ \A t \in warnings : cache[t].warned /\ loaded[t] = EmptyDF
    /\ pc # "crashed"
    /\ pc = "load" => ENABLED LoadTable
    /\ pc = "load" => \A i \in 1..(idx - 1) :
         TableOrder[i] \notin warnings => loaded[TableOrder[i]] = FreshFrame(TableOrder[i])
    /\ pc \in {"metrics", "render", "done"} =>
         \A t \in TableNames \ warnings : loaded[t] = FreshFrame(t)
    /\ Computed =>
         /\ "members" \in failedNow => metrics.members_count = 0
         /\ "contributions" \in failedNow => metrics.pot_total = Fin(0)
         /\ "foundation_payments" \in failedNow => metrics.foundation_total = Fin(0)
         /\ "loans" \in failedNow => metrics.outstanding_loans_due = Fin(0)
         /\ "history" \in failedNow => metrics.total_interest = Fin(0)
    /\ pc = "done" => (out.footer /\ out.bodies = {page} /\ ~out.error)

\* C5 witness: a finished run of the Loans page in which the reads of
\* contributions and loans failed and the other six succeeded.
C5_Witness ==
  /\ pc = "done"
  /\ page = "Loans"
  /\ failedNow = {"contributions", "loans"}
  /\ warnings = failedNow
  /\ loaded["members"] # EmptyDF
  /\ out.table.placeholder

\* C6: with the URL or the key missing or empty the run stops at the check
\* with the error drawn: no client, no remote read, no metric, no page, and
\* nothing further happens; with both present the run is never stopped and
\* goes on to create the client and load.
C6_MissingSecretsHalt ==
  LET missing == secrets.url \in {None, ""} \/ secrets.key \in {None, ""}
  IN /\ missing =>
          /\ pc \in {"start", "stopped"}
          /\ supabase = None
          /\ \A t \in TableNames : readLog[t] = <<>> /\ ~cache[t].valid
          /\ metrics = NoMetrics
          /\ out.bodies = {} /\ ~out.footer
          /\ pc = "start" => ENABLED CheckSecrets
          /\ pc = "stopped" => (out.error /\ ~ENABLED Next)
     /\ ~missing =>
          /\ pc # "stopped" /\ ~out.error
          /\ pc = "start" => ENABLED CheckSecrets
          /\ pc # "start" => supabase = "client"
          /\ pc = "load" => ENABLED LoadTable

\* C6 witness: the URL is set, the key is the empty text, the run is stopped.
C6_Witness ==
  /\ pc = "stopped"
  /\ secrets.url = "set"
  /\ secrets.key = ""
  /\ out.error

\* The table a table page is about.
TableOfPage(p) ==
  CASE p = "Members" -> "members"
    [] p = "Contributions" -> "contributions"
    [] p = "Foundation Payments" -> "foundation_payments"
    [] p = "Loans" -> "loans"
    [] p = "Fines" -> "fines"
    [] p = "Payouts" -> "payouts"
    [] p = "History" -> "history"
    [] OTHER -> "sureties"

PageShown ==
  /\ page \in PageSet
  /\ Len(Pages) = 9
  /\ ~selected => page = "Dashboard"
  /\ pc = "done" =>
       /\ out.bodies = {page}
       /\ \A p \in PageSet : ENABLED Select(p)
       /\ \A t \in TableNames : loaded[t] = lastResult[t]
       /\ metrics = ComputeMetricsOf(lastResult)
       /\ page = "Dashboard" =>
            (out.table = NoTable /\ Len(out.kpi) = 4 /\ Len(out.pie) = 3)
       /\ page # "Dashboard" =>
            /\ out.kpi = <<>> /\ out.pie = <<>> /\ ~out.chart_shown /\ ~out.recent.shown
            /\ out.table.title = page
            /\ IF loaded[TableOfPage(page)].cols = {} \/ loaded[TableOfPage(page)].rows = <<>>
               THEN out.table.placeholder /\ ~out.table.shown /\ "No data found" \in out.info
               ELSE /\ out.table.shown /\ ~out.table.placeholder
                    /\ out.table.df = loaded[TableOfPage(page)]
                    /\ "No data found" \notin out.info

SelectOnlyRerenders ==
  (pc = "done" /\ pc' = "start") =>
    /\ page' \in PageSet
    /\ UNCHANGED <<secrets, remote, now, cache, readLog, lastResult>>

\* C10: the sidebar starts at Dashboard and offers nine pages; a finished
\* run has drawn the body of the selected page and no other; every page can
\* be selected next from every page; a selection leaves the store, the clock
\* and the cache alone, and the frames and metrics of a run are those of the
\* last remote reads whatever page is selected; a table page shows its frame
\* as loaded, or the placeholder when the frame is empty.
C10_StatelessSelector == []PageShown /\ [][SelectOnlyRerenders]_vars

\* C10 witness: after a selection, the Loans page shows the loans frame.
C10_Witness ==
  /\ pc = "done"
  /\ selected
  /\ page = "Loans"
  /\ out.table.shown
  /\ out.table.df = FreshFrame("loans")
  /\ out.bodies = {"Loans"}

=============================================================================
